---- MODULE Spec2Model ----
(***************************************************************************)
(* A model of make_profiler/parser.py: the line tokenizer, the target      *)
(* parser that builds the AST, and get_dependencies_influences.            *)
(*                                                                         *)
(* A Python str is modelled as a sequence of one-character strings, so     *)
(* that strip, split, membership tests and the target regular expression   *)
(* are computed character by character, as the code computes them.         *)
(***************************************************************************)
EXTENDS Integers, Sequences, FiniteSets, TLC

\* ------------------------------------------------------------------------
\* Bounds of the model
\* ------------------------------------------------------------------------

\* Longest input file (in physical lines) drawn from FdLines.
MaxLines == 3

\* Longest single target line drawn from all strings over LineAlphabet.
MaxLineLen == 5

\* ------------------------------------------------------------------------
\* Characters and the str methods the code uses
\* ------------------------------------------------------------------------

\* The characters str.strip() with no argument and the regex class \s remove.
WS == {" ", "\t"}

\* Code points, as sorted() compares strings.
Ord(c) ==
    CASE c = "\t" -> 9   [] c = " " -> 32  [] c = "#" -> 35  [] c = "1" -> 49
      [] c = "2" -> 50   [] c = ":" -> 58  [] c = ";" -> 59  [] c = "=" -> 61
      [] c = "\\" -> 92  [] c = "a" -> 97  [] c = "b" -> 98  [] c = "c" -> 99
      [] c = "d" -> 100  [] c = "i" -> 105 [] c = "l" -> 108 [] c = "o" -> 111
      [] c = "s" -> 115  [] c = "t" -> 116 [] c = "u" -> 117 [] c = "v" -> 118
      [] c = "x" -> 120  [] c = "y" -> 121 [] c = "z" -> 122 [] c = "|" -> 124

\* The elements of a sequence (the values of a dict).
Range(f) == { f[i] : i \in DOMAIN f }

\* s[a..b] as a sequence (empty when a > b).
Slice(s, a, b) == IF a > b THEN <<>> ELSE SubSeq(s, a, b)

\* c in s
Contains(s, c) == \E i \in 1..Len(s) : s[i] = c

RECURSIVE LStrip(_, _)
\* s.lstrip(cs)
LStrip(s, cs) ==
    IF s # <<>> /\ Head(s) \in cs THEN LStrip(Tail(s), cs) ELSE s

RECURSIVE RStrip(_, _)
\* s.rstrip(cs)
RStrip(s, cs) ==
    IF s # <<>> /\ s[Len(s)] \in cs THEN RStrip(Slice(s, 1, Len(s) - 1), cs) ELSE s

\* s.strip(cs)
StripChars(s, cs) == RStrip(LStrip(s, cs), cs)

\* s.strip()
Strip(s) == StripChars(s, WS)

RECURSIVE SplitFrom(_, _, _)
\* s.split(): the maximal runs of non-whitespace characters, in order.
\* word is the run being read, acc the runs already closed.
SplitFrom(s, word, acc) ==
    IF s = <<>>
    THEN IF word = <<>> THEN acc ELSE Append(acc, word)
    ELSE IF Head(s) \in WS
         THEN SplitFrom(Tail(s), <<>>, IF word = <<>> THEN acc ELSE Append(acc, word))
         ELSE SplitFrom(Tail(s), Append(word, Head(s)), acc)

Split(s) == SplitFrom(s, <<>>, <<>>)

RECURSIVE JoinSpace(_)
\* ' '.join(parts)
JoinSpace(parts) ==
    IF parts = <<>> THEN <<>>
    ELSE IF Len(parts) = 1 THEN parts[1]
    ELSE parts[1] \o <<" ">> \o JoinSpace(Tail(parts))

RECURSIVE StrLess(_, _)
\* a < b for Python strings: lexicographic by code point.
StrLess(a, b) ==
    IF b = <<>> THEN FALSE
    ELSE IF a = <<>> THEN TRUE
    ELSE IF Ord(Head(a)) < Ord(Head(b)) THEN TRUE
    ELSE IF Ord(Head(a)) > Ord(Head(b)) THEN FALSE
    ELSE StrLess(Tail(a), Tail(b))

RECURSIVE InsertSorted(_, _)
InsertSorted(w, sorted) ==
    IF sorted = <<>> THEN <<w>>
    ELSE IF StrLess(w, Head(sorted)) THEN <<w>> \o sorted
    ELSE <<Head(sorted)>> \o InsertSorted(w, Tail(sorted))

RECURSIVE Sorted(_)
\* sorted(words)
Sorted(words) ==
    IF words = <<>> THEN <<>>
    ELSE InsertSorted(words[Len(words)], Sorted(Slice(words, 1, Len(words) - 1)))

\* ------------------------------------------------------------------------
\* State
\* ------------------------------------------------------------------------

VARIABLES
    fd,         \* tokenizer/parse: the input, a sequence of physical lines
    cursor,     \* tokenizer: lines the shared iterator `it` has handed out
    tstate,     \* tokenizer generator: "running", "done", or the exception raised
    cache,      \* peekable._cache: the token pulled from the generator, not yet consumed
    tokens,     \* history: every token the generator has yielded, in order
    spans,      \* history: for each yielded token, <<first, last>> line_num it was built from
    examined,   \* history: the line_num values bound by the classification loop
    pc,         \* parse: "loop", "body", "done", or the exception that ended it
    token,      \* parse_target: the Target token being parsed
    groups,     \* parse_target: the four groups of the regex match
    body,       \* parse_body: the commands collected so far
    ast,        \* parse: the AST built so far
    gast,       \* get_dependencies_influences: its argument
    gi,         \* get_dependencies_influences: AST items already visited by the first loop
    gj,         \* get_dependencies_influences: keys of influences already visited by the second loop
    gpc,        \* get_dependencies_influences: "run", "done", "RecursionError" ("idle": not called)
    dependencies,
    influences,
    order_only,
    indirect_influences,
    ikeys       \* the keys of influences in insertion order, as items() iterates them

lexvars == <<fd, cursor, tstate, cache, tokens, spans, examined, pc, token, groups, body, ast>>
graphvars == <<gast, gi, gj, gpc, dependencies, influences, order_only, indirect_influences, ikeys>>
vars == <<lexvars, graphvars>>

\* ------------------------------------------------------------------------
\* tokenizer
\* ------------------------------------------------------------------------

\* (Tokens.<kind>, text)
Token(kind, text) == [kind |-> kind, text |-> text]

\* `not strip_line`
IsBlank(line) == Strip(line) = <<>>

\* strip_line[0] == '#' and line[:2] != '##'
IsComment(line) ==
    /\ Strip(line)[1] = "#"
    /\ Slice(line, 1, IF Len(line) < 2 THEN Len(line) ELSE 2) # <<"#", "#">>

\* line[0] == '\t'
IsCommandLine(line) == line[1] = "\t"

\* ':' in line and '=' not in line
IsTargetLine(line) == Contains(line, ":") /\ ~Contains(line, "=")

\* The kind the classification loop gives a line it examines ("skip": no token).
Classify(line) ==
    IF IsBlank(line) THEN "skip"
    ELSE IF IsComment(line) THEN "skip"
    ELSE IF IsCommandLine(line) THEN "command"
    ELSE IF IsTargetLine(line) THEN "target"
    ELSE "expression"

\* Python < 3.7: a StopIteration raised inside a generator ends it silently.
GlueExhaustedSilently(acc, i) ==
    [state |-> "done", yields |-> FALSE, text |-> <<>>, last |-> i]

\* next(it) in glue_multiline with no line left: StopIteration inside the
\* generator, which Python 3.7+ (PEP 479) turns into RuntimeError.
GlueExhausted(acc, i) ==
    [state |-> "RuntimeError", yields |-> FALSE, text |-> <<>>, last |-> i]

RECURSIVE GlueFrom(_, _, _)
\* The while loop of glue_multiline with `line` = lines[i] and `lines` = acc.
GlueFrom(lines, i, acc) ==
    LET strip_line == Strip(lines[i]) IN
    IF strip_line = <<>>
    THEN \* strip_line[-1] of an empty string
         [state |-> "IndexError", yields |-> FALSE, text |-> <<>>, last |-> i]
    ELSE IF strip_line[Len(strip_line)] = "\\"
    THEN LET acc2 == Append(acc, Strip(RStrip(strip_line, {"\\"}))) IN
         IF i = Len(lines) THEN GlueExhausted(acc2, i)
         ELSE GlueFrom(lines, i + 1, acc2)
    ELSE [state |-> "running", yields |-> TRUE,
          text |-> JoinSpace(Append(acc, Strip(RStrip(strip_line, {"\\"})))),
          last |-> i]

\* glue_multiline(line) for the line at index i.
glue_multiline(lines, i) == GlueFrom(lines, i, <<>>)

\* A glue_multiline that reads ahead on an iterator of its own.
CursorAfterGluePrivate(first, last) == first

\* `it` is the one iterator the for loop and glue_multiline both advance.
CursorAfterGlue(first, last) == last

\* The generator runs only while a consumer waits in next(): peekable calls
\* next(self._it) only with an empty cache.
Need == pc \in {"loop", "body"} /\ cache = <<>> /\ tstate = "running"

\* The for loop finds `it` exhausted: the generator returns.
TokEnd ==
    /\ Need /\ cursor = Len(fd)
    /\ tstate' = "done"
    /\ UNCHANGED <<fd, cursor, cache, tokens, spans, examined, pc, token, groups, body, ast>>
    /\ UNCHANGED graphvars

\* An empty line or a comment: `continue`.
TokSkip ==
    /\ Need /\ cursor < Len(fd)
    /\ Classify(fd[cursor + 1]) = "skip"
    /\ cursor' = cursor + 1
    /\ examined' = Append(examined, cursor + 1)
    /\ UNCHANGED <<fd, tstate, cache, tokens, spans, pc, token, groups, body, ast>>
    /\ UNCHANGED graphvars

\* yield (kind, glue_multiline(line)), or the exception glue_multiline raises.
GlueAndYield(kind) ==
    LET first == cursor + 1
        g == glue_multiline(fd, first)
    IN  /\ cursor' = CursorAfterGlue(first, g.last)
        /\ examined' = Append(examined, first)
        /\ tstate' = g.state
        /\ cache' = IF g.yields THEN <<Token(kind, g.text)>> ELSE cache
        /\ tokens' = IF g.yields THEN Append(tokens, Token(kind, g.text)) ELSE tokens
        /\ spans' = IF g.yields THEN Append(spans, <<first, g.last>>) ELSE spans

TokCommand ==
    /\ Need /\ cursor < Len(fd)
    /\ Classify(fd[cursor + 1]) = "command"
    /\ GlueAndYield("command")
    /\ UNCHANGED <<fd, pc, token, groups, body, ast>>
    /\ UNCHANGED graphvars

TokTarget ==
    /\ Need /\ cursor < Len(fd)
    /\ Classify(fd[cursor + 1]) = "target"
    /\ GlueAndYield("target")
    /\ UNCHANGED <<fd, pc, token, groups, body, ast>>
    /\ UNCHANGED graphvars

\* yield (Tokens.expression, line.strip(' ;\t'))
TokExpression ==
    /\ Need /\ cursor < Len(fd)
    /\ Classify(fd[cursor + 1]) = "expression"
    /\ LET t == Token("expression", StripChars(fd[cursor + 1], {" ", ";", "\t"})) IN
        /\ cache' = <<t>>
        /\ tokens' = Append(tokens, t)
    /\ spans' = Append(spans, <<cursor + 1, cursor + 1>>)
    /\ cursor' = cursor + 1
    /\ examined' = Append(examined, cursor + 1)
    /\ UNCHANGED <<fd, tstate, pc, token, groups, body, ast>>
    /\ UNCHANGED graphvars

\* ------------------------------------------------------------------------
\* parse
\* ------------------------------------------------------------------------

RECURSIVE ScanUntil(_, _, _)
\* The end of a greedy [^...]+ started at p: the first index >= p whose
\* character is in stop, or Len(line) + 1.
ScanUntil(line, p, stop) ==
    IF p > Len(line) \/ line[p] \in stop THEN p ELSE ScanUntil(line, p + 1, stop)

\* The end of the lazy (.+?) before ':': the first ':' after at least one
\* character, 0 when there is none.
NameEnd(line) ==
    LET cs == {i \in 2..Len(line) : line[i] = ":"} IN
    IF cs = {} THEN 0 ELSE CHOOSE i \in cs : \A j \in cs : i <= j

\* An optional \s? at p.
SkipSpace(line, p) == IF p <= Len(line) /\ line[p] \in WS THEN p + 1 ELSE p

\* re.match(r'(.+?): \s? ([^|#]+)? \s? [|]? \s? ([^##]+)? \s?  \s? ([#][#].+)?',
\*          line, re.X): matched is FALSE for None; a group that took no part
\* (None) is the empty string, which `if deps` treats alike.
Match(line) ==
    LET n  == Len(line)
        c  == NameEnd(line)
        p1 == SkipSpace(line, c + 1)
        e2 == ScanUntil(line, p1, {"|", "#"})
        p3 == IF e2 <= n /\ line[e2] = "|" THEN e2 + 1 ELSE e2
        p4 == SkipSpace(line, p3)
        e3 == ScanUntil(line, p4, {"#"})
        hasdoc == e3 + 2 <= n /\ line[e3] = "#" /\ line[e3 + 1] = "#"
    IN  IF c = 0
        THEN [matched |-> FALSE, target |-> <<>>, deps |-> <<>>,
              order_deps |-> <<>>, docstring |-> <<>>]
        ELSE [matched |-> TRUE,
              target |-> Slice(line, 1, c - 1),
              deps |-> Slice(line, p1, e2 - 1),
              order_deps |-> Slice(line, p4, e3 - 1),
              docstring |-> IF hasdoc THEN Slice(line, e3, n) ELSE <<>>]

NoGroups ==
    [matched |-> FALSE, target |-> <<>>, deps |-> <<>>, order_deps |-> <<>>,
     docstring |-> <<>>]

\* deps.strip().split() with the sorted() left out.
DepListUnsorted(group) == IF group = <<>> THEN <<>> ELSE Split(Strip(group))

\* A parse_target that sorts `deps` a second time where it means `order_deps`.
OrderDepListFromDeps(g) == IF g.order_deps = <<>> THEN <<>> ELSE Sorted(Split(Strip(g.deps)))

\* sorted(deps.strip().split()) if deps else []
DepList(group) == IF group = <<>> THEN <<>> ELSE Sorted(Split(Strip(group)))

\* sorted(order_deps.strip().split()) if order_deps else []
OrderDepList(g) == IF g.order_deps = <<>> THEN <<>> ELSE Sorted(Split(Strip(g.order_deps)))

\* docstring.strip().strip('#').strip() if docstring else ''
Docs(docstring) ==
    IF docstring = <<>> THEN <<>> ELSE Strip(StripChars(Strip(docstring), {"#"}))

\* The dict parse_target appends, paired with token[0].
TargetNode(g, b) ==
    [kind |-> "target",
     target |-> Strip(g.target),
     deps |-> <<DepList(g.deps), OrderDepList(g)>>,
     docs |-> Docs(g.docstring),
     body |-> b]

\* for token in it: an expression (any token that is not a target) is appended as is.
ParseExpression ==
    /\ pc = "loop" /\ cache # <<>>
    /\ Head(cache).kind # "target"
    /\ ast' = Append(ast, Head(cache))
    /\ cache' = <<>>
    /\ UNCHANGED <<fd, cursor, tstate, tokens, spans, examined, pc, token, groups, body>>
    /\ UNCHANGED graphvars

\* for token in it: a target; parse_target matches the line, then calls parse_body.
\* re.match(...) returning None makes .groups() raise AttributeError.
ParseTarget ==
    /\ pc = "loop" /\ cache # <<>>
    /\ Head(cache).kind = "target"
    /\ LET m == Match(Head(cache).text) IN
        /\ pc' = IF m.matched THEN "body" ELSE "AttributeError"
        /\ groups' = m
    /\ token' = Head(cache)
    /\ body' = <<>>
    /\ cache' = <<>>
    /\ UNCHANGED <<fd, cursor, tstate, tokens, spans, examined, ast>>
    /\ UNCHANGED graphvars

\* A next_belongs_to_target that takes the token out of the iterator.
PeekedConsumed(c) == <<>>

\* it.peek() in next_belongs_to_target: the token stays in the peekable's cache.
Peeked(c) == c

\* parse_body: next_belongs_to_target() is true, body.append(next(it)).
BodyCommand ==
    /\ pc = "body" /\ cache # <<>>
    /\ Head(cache).kind = "command"
    /\ body' = Append(body, Head(cache))
    /\ cache' = <<>>
    /\ UNCHANGED <<fd, cursor, tstate, tokens, spans, examined, pc, token, groups, ast>>
    /\ UNCHANGED graphvars

\* parse_body returns: the peeked token is no command (it stays in the cache),
\* or peek() raised StopIteration; parse_target appends the record.
BodyEnd ==
    /\ pc = "body"
    /\ \/ cache # <<>> /\ Head(cache).kind # "command"
       \/ cache = <<>> /\ tstate = "done"
    /\ ast' = Append(ast, TargetNode(groups, body))
    /\ pc' = "loop"
    /\ cache' = Peeked(cache)
    /\ UNCHANGED <<fd, cursor, tstate, tokens, spans, examined, token, groups, body>>
    /\ UNCHANGED graphvars

\* The outer loop finds the stream exhausted: return ast.
ParseDone ==
    /\ pc = "loop" /\ cache = <<>> /\ tstate = "done"
    /\ pc' = "done"
    /\ UNCHANGED <<fd, cursor, tstate, cache, tokens, spans, examined, token, groups, body, ast>>
    /\ UNCHANGED graphvars

\* An exception raised in the generator leaves next(it) / it.peek(); parse_body
\* catches StopIteration only, so it ends parse.
ParseRaise ==
    /\ pc \in {"loop", "body"} /\ cache = <<>>
    /\ tstate \in {"RuntimeError", "IndexError"}
    /\ pc' = tstate
    /\ UNCHANGED <<fd, cursor, tstate, cache, tokens, spans, examined, token, groups, body, ast>>
    /\ UNCHANGED graphvars

\* ------------------------------------------------------------------------
\* Inputs of parse
\* ------------------------------------------------------------------------

\* Physical lines that input files of up to MaxLines lines are made of.
FdLines ==
    { <<>>,
      <<"#", " ", "c">>,
      <<" ", " ">>,
      <<"a", ":", " ", "b">>,
      <<"b", ":", "a", " ", "\\">>,
      <<"\t", "c">>,
      <<"\t", "d", "\\">>,
      <<"v", "=", "1", ";">>,
      <<":">> }

\* The characters single target lines are made of.
LineAlphabet == {"a", "b", " ", ":", "|", "#"}

ShortLines == UNION { [1..n -> LineAlphabet] : n \in 1..MaxLineLen }

\* The target lines of the specification's examples.
ExampleBuild == <<"b", "u", "i", "l", "d", ":", " ", "a", " ", "c", " ", "b", " ", "|", " ", "o", "2", " ", "o", "1", " ", "#", "#", " ", "b", "u", "i", "l", "d", "s", " ", "i", "t">>
ExampleXYZ == <<"x", ":", " ", "y", " ", "z">>

\* A target line whose documentation text itself starts with '#'.
ExampleHashDoc == <<"x", ":", " ", "y", " ", "#", "#", " ", "#", " ", "z">>

Inputs ==
    { <<l>> : l \in ShortLines \cup {ExampleBuild, ExampleXYZ, ExampleHashDoc} }
        \cup UNION { [1..n -> FdLines] : n \in 0..MaxLines }

\* ------------------------------------------------------------------------
\* Specification of parse(fd), which drives tokenizer(fd)
\* ------------------------------------------------------------------------

GraphIdle ==
    /\ gast = <<>> /\ gi = 0 /\ gj = 0 /\ gpc = "idle"
    /\ dependencies = <<>> /\ influences = <<>> /\ order_only = {}
    /\ indirect_influences = <<>> /\ ikeys = <<>>

Init ==
    /\ fd \in Inputs
    /\ cursor = 0 /\ tstate = "running" /\ cache = <<>>
    /\ tokens = <<>> /\ spans = <<>> /\ examined = <<>>
    /\ pc = "loop" /\ token = Token("none", <<>>) /\ groups = NoGroups
    /\ body = <<>> /\ ast = <<>>
    /\ GraphIdle

Next ==
    \/ TokEnd \/ TokSkip \/ TokCommand \/ TokTarget \/ TokExpression
    \/ ParseExpression \/ ParseTarget \/ BodyCommand \/ BodyEnd
    \/ ParseDone \/ ParseRaise

Spec == Init /\ [][Next]_vars

\* ------------------------------------------------------------------------
\* get_dependencies_influences
\* ------------------------------------------------------------------------

\* Deepest nesting of recurse_indirect_influences the interpreter allows
\* before it raises RecursionError (sys.getrecursionlimit(), scaled down).
RecursionLimit == 5

\* Most AST items in an input drawn from GraphItems.
MaxItems == 3

\* A dict (or defaultdict) is a function from its keys; d[k] = v.
Put(d, k, v) == [x \in DOMAIN d \cup {k} |-> IF x = k THEN v ELSE d[x]]

\* defaultdict(set): influences[k] creates the key with an empty set.
Touch(d, k) == IF k \in DOMAIN d THEN d ELSE Put(d, k, {})

\* The insertion order of a key that Touch may create.
TouchKey(keys, k) == IF k \in Range(keys) THEN keys ELSE Append(keys, k)

\* A first loop without the .PHONY test.
IsPhonyNever(target) == FALSE

\* target in ('.PHONY',)
IsPhony(target) == target = ".PHONY"

\* A first loop that reverses the order-only edges as well.
OrderDepEntryWithEdge(entry, target) == entry \cup {target}

\* for k in order_deps: influences[k] -- the entry is created, nothing is added.
OrderDepEntry(entry, target) == entry

RECURSIVE AddDeps(_, _, _)
\* for k in deps: influences[k].add(target)
AddDeps(infl, deps, target) ==
    IF deps = <<>> THEN infl
    ELSE AddDeps(Put(infl, Head(deps), Touch(infl, Head(deps))[Head(deps)] \cup {target}),
                 Tail(deps), target)

RECURSIVE AddOrderDeps(_, _, _)
\* for k in order_deps: influences[k]
AddOrderDeps(infl, order_deps, target) ==
    IF order_deps = <<>> THEN infl
    ELSE AddOrderDeps(Put(infl, Head(order_deps),
                          OrderDepEntry(Touch(infl, Head(order_deps))[Head(order_deps)], target)),
                      Tail(order_deps), target)

RECURSIVE TouchKeys(_, _)
TouchKeys(keys, names) ==
    IF names = <<>> THEN keys ELSE TouchKeys(TouchKey(keys, Head(names)), Tail(names))

\* for item_t, item in ast: if item_t != Tokens.target: continue
SkipItem ==
    /\ gpc = "run" /\ gi < Len(gast)
    /\ gast[gi + 1].kind # "target"
    /\ gi' = gi + 1
    /\ UNCHANGED <<gast, gj, gpc, dependencies, influences, order_only, indirect_influences, ikeys>>
    /\ UNCHANGED lexvars

\* if target in ('.PHONY',): continue
SkipPhony ==
    /\ gpc = "run" /\ gi < Len(gast)
    /\ gast[gi + 1].kind = "target"
    /\ IsPhony(gast[gi + 1].target)
    /\ gi' = gi + 1
    /\ UNCHANGED <<gast, gj, gpc, dependencies, influences, order_only, indirect_influences, ikeys>>
    /\ UNCHANGED lexvars

\* The rest of the first loop's body for a target item.
AddTarget ==
    /\ gpc = "run" /\ gi < Len(gast)
    /\ gast[gi + 1].kind = "target"
    /\ ~IsPhony(gast[gi + 1].target)
    /\ LET target == gast[gi + 1].target
           deps == gast[gi + 1].deps[1]
           order_deps == gast[gi + 1].deps[2]
       IN  /\ dependencies' = Put(dependencies, target, <<deps, order_deps>>)
           /\ influences' = AddOrderDeps(AddDeps(Touch(influences, target), deps, target),
                                         order_deps, target)
           /\ ikeys' = TouchKeys(TouchKeys(TouchKey(ikeys, target), deps), order_deps)
           /\ order_only' = order_only \cup Range(order_deps)
    /\ gi' = gi + 1
    /\ UNCHANGED <<gast, gj, gpc, indirect_influences>>
    /\ UNCHANGED lexvars

RECURSIVE Recurse(_, _, _)
\* recurse_indirect_influences(original_target, recurse_target) entered at
\* nesting depth d: what it and the calls it makes add to
\* indirect_influences[original_target], and whether the nesting passes the
\* interpreter's limit.
Recurse(infl, recurse_target, d) ==
    IF d > RecursionLimit THEN [overflow |-> TRUE, added |-> {}]
    ELSE LET calls == { Recurse(infl, t, d + 1) : t \in infl[recurse_target] } IN
         [overflow |-> \E r \in calls : r.overflow,
          added |-> infl[recurse_target] \cup UNION { r.added : r \in calls }]

\* A closure that also files the direct influences under the indirect ones.
CallsForWithDirect(infl, original_target) ==
    { Recurse(infl, t, 1) : t \in infl[original_target] }
        \cup { [overflow |-> FALSE, added |-> infl[original_target]] }

\* for t in targets: recurse_indirect_influences(original_target, t)
CallsFor(infl, original_target) ==
    { Recurse(infl, t, 1) : t \in infl[original_target] }

\* One iteration of `for original_target, targets in influences.items()`.
\* indirect_influences[original_target] comes to exist with the first call.
ClosureStep ==
    /\ gpc = "run" /\ gi = Len(gast) /\ gj < Len(ikeys)
    /\ LET original_target == ikeys[gj + 1]
           calls == CallsFor(influences, original_target)
       IN  IF \E r \in calls : r.overflow
           THEN /\ gpc' = "RecursionError"
                /\ UNCHANGED <<gj, indirect_influences>>
           ELSE /\ gj' = gj + 1
                /\ indirect_influences' =
                       IF calls = {} THEN indirect_influences
                       ELSE Put(indirect_influences, original_target,
                                UNION { r.added : r \in calls })
                /\ UNCHANGED gpc
    /\ UNCHANGED <<gast, gi, dependencies, influences, order_only, ikeys>>
    /\ UNCHANGED lexvars

\* return dependencies, influences, order_only, indirect_influences
Return ==
    /\ gpc = "run" /\ gi = Len(gast) /\ gj = Len(ikeys)
    /\ gpc' = "done"
    /\ UNCHANGED <<gast, gi, gj, dependencies, influences, order_only, indirect_influences, ikeys>>
    /\ UNCHANGED lexvars

\* ------------------------------------------------------------------------
\* Inputs of get_dependencies_influences. An item carries what the function
\* reads: its kind and, for a target, the name and the two sorted lists.
\* ------------------------------------------------------------------------

TargetItem(target, deps, order_deps) ==
    [kind |-> "target", target |-> target, deps |-> <<deps, order_deps>>]

ExpressionItem == [kind |-> "expression", target |-> "", deps |-> <<<<>>, <<>>>>]

\* The items ASTs of up to MaxItems items are made of.
GraphItems ==
    { TargetItem(t, d, o) : t \in {"A", "B", ".PHONY"},
                            d \in {<<>>, <<"A">>, <<"B">>},
                            o \in {<<>>, <<"B">>} }
        \cup {ExpressionItem}

\* The sorted lists over four names.
ChainDeps ==
    { <<>>, <<"A">>, <<"B">>, <<"C">>, <<"D">>,
      <<"A", "B">>, <<"A", "C">>, <<"A", "D">>, <<"B", "C">>, <<"B", "D">>, <<"C", "D">>,
      <<"A", "B", "C">>, <<"A", "B", "D">>, <<"A", "C", "D">>, <<"B", "C", "D">>,
      <<"A", "B", "C", "D">> }

\* ASTs that define A, B and C once each, over the names A to D.
ChainAsts ==
    { <<TargetItem("A", da, <<>>), TargetItem("B", db, <<>>), TargetItem("C", dc, <<>>)>> :
        da \in ChainDeps, db \in ChainDeps, dc \in ChainDeps }

GraphInputs == ChainAsts \cup UNION { [1..n -> GraphItems] : n \in 0..MaxItems }

LexIdle ==
    /\ fd = <<>> /\ cursor = 0 /\ tstate = "done" /\ cache = <<>>
    /\ tokens = <<>> /\ spans = <<>> /\ examined = <<>>
    /\ pc = "idle" /\ token = Token("none", <<>>) /\ groups = NoGroups
    /\ body = <<>> /\ ast = <<>>

GraphInit ==
    /\ gast \in GraphInputs
    /\ gi = 0 /\ gj = 0 /\ gpc = "run"
    /\ dependencies = <<>> /\ influences = <<>> /\ order_only = {}
    /\ indirect_influences = <<>> /\ ikeys = <<>>
    /\ LexIdle

GraphNext == SkipItem \/ SkipPhony \/ AddTarget \/ ClosureStep \/ Return

GraphSpec == GraphInit /\ [][GraphNext]_vars

\* ------------------------------------------------------------------------
\* Properties of tokenizer and parse
\* ------------------------------------------------------------------------

\* The first index of character c in s at or after p, 0 when there is none.
IndexFrom(s, c, p) ==
    LET cs == {i \in p..Len(s) : s[i] = c} IN
    IF cs = {} THEN 0 ELSE CHOOSE i \in cs : \A j \in cs : i <= j

\* The first index at which "##" starts in s, 0 when there is none.
DocMark(s) ==
    LET ms == {i \in 1..(Len(s) - 1) : s[i] = "#" /\ s[i + 1] = "#"} IN
    IF ms = {} THEN 0 ELSE CHOOSE i \in ms : \A j \in ms : i <= j

\* The parts of a target line as the grammar
\*   <name>: <required-deps>? [| <order-only-deps>?] <##docstring>?
\* names them: the text before the first ':', and of the text after it, what
\* comes before the first "##" (split at its first '|') and what comes after.
LineName(text) == Slice(text, 1, IndexFrom(text, ":", 1) - 1)
LineRest(text) == Slice(text, IndexFrom(text, ":", 1) + 1, Len(text))
LineHead(text) ==
    LET r == LineRest(text) IN
    IF DocMark(r) = 0 THEN r ELSE Slice(r, 1, DocMark(r) - 1)
LineDoc(text) ==
    LET r == LineRest(text) IN
    IF DocMark(r) = 0 THEN <<>> ELSE Slice(r, DocMark(r) + 2, Len(r))
LineDocFromMark(text) ==
    LET r == LineRest(text) IN
    IF DocMark(r) = 0 THEN <<>> ELSE Slice(r, DocMark(r), Len(r))
LineRequired(text) ==
    LET h == LineHead(text) IN
    IF IndexFrom(h, "|", 1) = 0 THEN h ELSE Slice(h, 1, IndexFrom(h, "|", 1) - 1)
LineOrderOnly(text) ==
    LET h == LineHead(text) IN
    IF IndexFrom(h, "|", 1) = 0 THEN <<>> ELSE Slice(h, IndexFrom(h, "|", 1) + 1, Len(h))

\* The text has the grammar's form: a non-empty name before its first ':',
\* and no '#' other than the "##" that starts the docstring.
HasTargetForm(text) ==
    /\ IndexFrom(text, ":", 1) >= 2
    /\ ~Contains(LineHead(text), "#")

\* names is sorted in lexicographic (code point) order.
IsSortedLex(names) ==
    \A i \in 1..(Len(names) - 1) : names[i] = names[i + 1] \/ StrLess(names[i], names[i + 1])

\* a and b hold the same names, each as many times.
SameNames(a, b) ==
    /\ Len(a) = Len(b)
    /\ \A w \in Range(a) \cup Range(b) :
         Cardinality({i \in DOMAIN a : a[i] = w}) = Cardinality({i \in DOMAIN b : b[i] = w})

\* The record parse appended for the Target token held in `token`: the last
\* target node of the AST, once parse_target has returned.
RecordAppended == pc \in {"loop", "done"} /\ token.kind = "target"
LastTargetNode ==
    LET ts == {i \in DOMAIN ast : ast[i].kind = "target"} IN
    ast[CHOOSE i \in ts : \A j \in ts : j <= i]

\* The name and the two lists of the record are those the grammar names.
NameAndListsAsWritten(n, text) ==
    /\ n.target = Strip(LineName(text))
    /\ IsSortedLex(n.deps[1])
    /\ SameNames(n.deps[1], Split(LineRequired(text)))
    /\ IsSortedLex(n.deps[2])
    /\ SameNames(n.deps[2], Split(LineOrderOnly(text)))

\* C5 as claimed: for a target token of the form <name>: <required>?
\* [| <order-only>?] <##doc>?, the record parse produces has the trimmed text
\* before the first ':' as its name, the whitespace-separated names before
\* '|' in lexicographic order as its required list, those between '|' and
\* "##" in lexicographic order as its order-only list, and the text after
\* "##" trimmed of '#' and whitespace as its doc; an absent part gives an
\* empty list or the empty string.
C5_DocIsTextAfterMarkTrimmed ==
    (RecordAppended /\ HasTargetForm(token.text)) =>
        /\ NameAndListsAsWritten(LastTargetNode, token.text)
        /\ LastTargetNode.docs = StripChars(LineDoc(token.text), WS \cup {"#"})

\* C5 amended: name and lists as claimed; the doc is the text from the "##"
\* mark to the end of the line with surrounding whitespace removed, then
\* leading and trailing '#', then surrounding whitespace again, so that a
\* '#' that follows whitespace after the mark stays (`x: y ## # z` gives
\* "# z").
C5_TargetRecordFields ==
    (RecordAppended /\ HasTargetForm(token.text)) =>
        /\ NameAndListsAsWritten(LastTargetNode, token.text)
        /\ LastTargetNode.docs =
               Strip(StripChars(Strip(LineDocFromMark(token.text)), {"#"}))

\* C5 witness: the record of `build: a c b | o2 o1 ## builds it` has been
\* appended with the fields the specification's example gives.
C5_Witness ==
    /\ pc = "done" /\ fd = <<ExampleBuild>>
    /\ ast[1].target = <<"b", "u", "i", "l", "d">>
    /\ ast[1].deps = << << <<"a">>, <<"b">>, <<"c">> >>, << <<"o", "1">>, <<"o", "2">> >> >>
    /\ ast[1].docs = <<"b", "u", "i", "l", "d", "s", " ", "i", "t">>

\* C6 as claimed: in every target record of the AST the required list and the
\* order-only list share no name.
C6_ListsDisjoint ==
    \A i \in DOMAIN ast :
        ast[i].kind = "target" => Range(ast[i].deps[1]) \cap Range(ast[i].deps[2]) = {}

\* The text between the ':' that ends the name and the first '|' after it,
\* and the text after that '|', up to the first '#'.
BeforeBar(text) ==
    LET c == NameEnd(text)
        b == IndexFrom(text, "|", c + 1)
    IN  IF b = 0 THEN Slice(text, c + 1, Len(text)) ELSE Slice(text, c + 1, b - 1)
AfterBar(text) ==
    LET b == IndexFrom(text, "|", NameEnd(text) + 1)
        h == IF b = 0 THEN 0 ELSE IndexFrom(text, "#", b + 1)
    IN  IF b = 0 THEN <<>>
        ELSE IF h = 0 THEN Slice(text, b + 1, Len(text))
        ELSE Slice(text, b + 1, h - 1)

\* C6 amended: a name is in both lists of a target record only if the target
\* line writes it on both sides of '|'; the lists are disjoint whenever the
\* names written before '|' and those written after it are.
C6_SharedOnlyIfWrittenTwice ==
    RecordAppended =>
        \A w \in Range(LastTargetNode.deps[1]) \cap Range(LastTargetNode.deps[2]) :
            /\ w \in Range(Split(BeforeBar(token.text)))
            /\ w \in Range(Split(AfterBar(token.text)))

\* C6 witness: a record with a name in both of its lists has been appended.
C6_Witness ==
    /\ RecordAppended /\ LastTargetNode.target = <<"a">>
    /\ Range(LastTargetNode.deps[1]) \cap Range(LastTargetNode.deps[2]) # {}

\* C7: continuation splicing advances the one line cursor: the lines of a
\* token are consecutive, a line spliced into a token is never examined by
\* the classification loop, no line is examined twice, every token starts at
\* a line the loop examined, and the tokens' line ranges follow one another
\* in file order without overlap.
C7_SplicedLinesNotReexamined ==
    /\ \A j \in 1..(Len(examined) - 1) : examined[j] < examined[j + 1]
    /\ \A k \in DOMAIN spans :
        /\ spans[k][1] <= spans[k][2] /\ spans[k][2] <= cursor
        /\ spans[k][1] \in Range(examined)
        /\ \A l \in (spans[k][1] + 1)..spans[k][2] : l \notin Range(examined)
        /\ tokens[k].kind = Classify(fd[spans[k][1]])
    /\ \A k \in 1..(Len(spans) - 1) : spans[k][2] < spans[k + 1][1]

\* C7 witness: a token spliced from more than one line was emitted, and
\* another token after it.
C7_Witness ==
    /\ pc = "done" /\ Len(spans) >= 2
    /\ spans[1][2] > spans[1][1]

\* Line i and every line after it ends, once trimmed, with the continuation
\* marker: a continuation started at i runs into the end of the input.
Dangling(i) ==
    \A j \in i..Len(fd) :
        Strip(fd[j]) # <<>> /\ Strip(fd[j])[Len(Strip(fd[j]))] = "\\"

\* The classification loop has started a Command or Target token at a line
\* whose continuation reaches the end of the input.
DanglingStarted ==
    \E i \in Range(examined) : Classify(fd[i]) \in {"command", "target"} /\ Dangling(i)

\* C8: once a Command or Target line whose continuation reaches end-of-input
\* has been taken up, the tokenizer has raised, no token was emitted for that
\* line, and parse neither goes on nor returns: it ends with the error.
C8_DanglingContinuationRaises ==
    DanglingStarted =>
        /\ tstate = "RuntimeError"
        /\ pc \in {"loop", "body", "RuntimeError"}
        /\ pc # "RuntimeError" => ENABLED ParseRaise
        /\ \A k \in DOMAIN spans : ~Dangling(spans[k][1])

\* C8 witness: parse has ended with the error while collecting the body of a
\* target whose last command line is continued into the end of the input.
C8_Witness ==
    /\ pc = "RuntimeError" /\ DanglingStarted
    /\ token.kind = "target" /\ ast = <<>> /\ Len(tokens) >= 1

RECURSIVE Covers(_, _)
\* The AST nodes account for the tokens, one after another: a target node for
\* its Target token followed by exactly the commands of its body, the next
\* token being no command; any other node for the token it is.
Covers(nodes, toks) ==
    IF nodes = <<>> THEN toks = <<>>
    ELSE IF toks = <<>> THEN FALSE
    ELSE IF Head(nodes).kind = "target"
    THEN LET b == Head(nodes).body IN
         /\ Head(toks).kind = "target"
         /\ Len(toks) >= 1 + Len(b)
         /\ Slice(toks, 2, 1 + Len(b)) = b
         /\ \A j \in DOMAIN b : b[j].kind = "command"
         /\ Len(toks) > 1 + Len(b) => toks[2 + Len(b)].kind # "command"
         /\ Head(nodes).target = Strip(Match(Head(toks).text).target)
         /\ Covers(Tail(nodes), Slice(toks, 2 + Len(b), Len(toks)))
    ELSE /\ Head(toks).kind # "target"
         /\ Head(nodes) = Head(toks)
         /\ Covers(Tail(nodes), Tail(toks))

\* C9: parse gives each target record exactly the maximal run of Command
\* tokens that immediately follows its Target token, in order, and leaves the
\* first other token to the outer loop; a Target token followed by no Command
\* token gives an empty body; so the AST nodes, each followed by its body,
\* are the token stream: while parse runs, the part consumed so far, and on
\* return all of it.
C9_BodiesCoverTokenStream ==
    /\ pc = "loop" => Covers(ast, Slice(tokens, 1, Len(tokens) - Len(cache)))
    /\ pc = "done" => Covers(ast, tokens)

\* C9 witness: parse returned an AST whose first target has a body, ended by
\* a token the body left to the outer loop, and whose last node is a target
\* with an empty body at the end of the stream.
C9_Witness ==
    /\ pc = "done" /\ Len(ast) >= 2
    /\ ast[1].kind = "target" /\ Len(ast[1].body) >= 1
    /\ ast[Len(ast)].kind = "target" /\ ast[Len(ast)].body = <<>>

\* ------------------------------------------------------------------------
\* Properties of get_dependencies_influences
\* ------------------------------------------------------------------------

\* Reading a defaultdict(set): a missing key reads as the empty set.
Infl(d) == IF d \in DOMAIN influences THEN influences[d] ELSE {}
Ind(o) == IF o \in DOMAIN indirect_influences THEN indirect_influences[o] ELSE {}

\* The target records the first loop has graphed so far: all but .PHONY's.
Graphed ==
    { gast[i] : i \in { j \in 1..gi : gast[j].kind = "target" /\ gast[j].target # ".PHONY" } }

RECURSIVE Grow(_)
\* The least set that holds S and the direct influences of its members.
Grow(S) ==
    LET n == S \cup UNION { Infl(x) : x \in S } IN
    IF n = S THEN S ELSE Grow(n)

\* The targets reachable from o by one or more influences edges.
ReachPlus(o) == Grow(Infl(o))

\* The targets reachable from o by two or more influences edges.
ReachTwoPlus(o) == UNION { ReachPlus(t) : t \in Infl(o) }

\* No target influences itself, directly or indirectly.
Acyclic == \A o \in DOMAIN influences : o \notin ReachPlus(o)

CycleAB == <<TargetItem("A", <<"B">>, <<>>), TargetItem("B", <<"A">>, <<>>)>>
ChainABC == <<TargetItem("A", <<"B">>, <<>>), TargetItem("B", <<"C">>, <<>>),
              TargetItem("C", <<>>, <<>>)>>

\* C1 as claimed: get_dependencies_influences terminates on every AST, also
\* one whose required dependencies form a cycle, and for `A: B`, `B: A` it
\* returns indirect_influences["A"] = {"B"} and indirect_influences["B"] = {"A"}.
C1_TerminatesOnCycles ==
    /\ gpc # "RecursionError"
    /\ (gpc = "done" /\ gast = CycleAB) => (Ind("A") = {"B"} /\ Ind("B") = {"A"})

\* C2 as claimed: for acyclic targets indirect_influences[o] is the set of
\* all targets reachable from o by one or more influences edges, the direct
\* influences of o included.
C2_IndirectIsTransitiveClosure ==
    (gpc = "done" /\ Acyclic) =>
        \A o \in DOMAIN influences : Ind(o) = ReachPlus(o)

\* C2 amended: for acyclic targets indirect_influences[o] is the set of the
\* targets reachable from o by two or more influences edges: a direct
\* influence of o is in it only if a longer path reaches it too. For `A: B`,
\* `B: C`, `C:` influences["C"] = {"B"}, influences["B"] = {"A"} and
\* indirect_influences["C"] = {"A"}.
C2_IndirectIsTwoOrMoreEdges ==
    (gpc = "done" /\ Acyclic) =>
        /\ \A o \in DOMAIN influences : Ind(o) = ReachTwoPlus(o)
        /\ gast = ChainABC =>
               (Infl("C") = {"B"} /\ Infl("B") = {"A"} /\ Ind("C") = {"A"})

\* C2 witness: an acyclic graph was closed in which some name has two
\* targets that only paths of two and three edges reach.
C2_Witness ==
    /\ gpc = "done" /\ Acyclic
    /\ \E o \in DOMAIN influences :
           Cardinality(ReachTwoPlus(o)) >= 2 /\ ReachTwoPlus(o) \cap Infl(o) = {}

\* C3: a target record named .PHONY contributes nothing: .PHONY is no key of
\* dependencies, and every key of influences, every edge in it and every
\* member of order_only is put there by a record of another target.
C3_PhonyContributesNothing ==
    /\ ".PHONY" \notin DOMAIN dependencies
    /\ DOMAIN influences =
           UNION { {r.target} \cup Range(r.deps[1]) \cup Range(r.deps[2]) : r \in Graphed }
    /\ \A d \in DOMAIN influences : \A t \in influences[d] :
           \E r \in Graphed : r.target = t /\ d \in Range(r.deps[1])
    /\ \A d \in order_only : \E r \in Graphed : d \in Range(r.deps[2])

\* C3 witness: the function returned for an AST with a .PHONY record that has
\* required and order-only names, one of which is no key of influences.
C3_Witness ==
    /\ gpc = "done"
    /\ \E i \in DOMAIN gast :
        /\ gast[i].kind = "target" /\ gast[i].target = ".PHONY"
        /\ gast[i].deps[1] # <<>> /\ gast[i].deps[2] # <<>>
        /\ \E d \in Range(gast[i].deps[1]) : d \notin DOMAIN influences
    /\ DOMAIN influences # {}

\* C4: order-only prerequisites never create an influence edge: for each
\* graphed target t and each order-only dependency d of t, d is a key of
\* influences and a member of order_only, and t is in influences[d] only if
\* some definition of t has d as a required dependency; order_only is exactly
\* the union of the order-only names of the graphed targets.
C4_OrderOnlyAddsNoEdge ==
    /\ \A r \in Graphed : \A d \in Range(r.deps[2]) :
        /\ d \in DOMAIN influences
        /\ d \in order_only
        /\ r.target \in influences[d] =>
               \E r2 \in Graphed : r2.target = r.target /\ d \in Range(r2.deps[1])
    /\ order_only = UNION { Range(r.deps[2]) : r \in Graphed }

\* C4 witness: the function returned with a target that has an order-only
\* dependency whose influences entry exists and does not hold the target.
C4_Witness ==
    /\ gpc = "done"
    /\ \E r \in Graphed : \E d \in Range(r.deps[2]) :
           d \in DOMAIN influences /\ r.target \notin influences[d]

\* C10 as claimed: the influences map returned is the exact reversal of the
\* dependencies map returned, also when a target name is defined twice: t is
\* in influences[d] if and only if d is in the required list stored in
\* dependencies[t].
C10_InfluencesReverseDependencies ==
    gpc = "done" =>
        \A d \in DOMAIN influences : \A t \in DOMAIN influences :
            t \in influences[d] <=>
                (t \in DOMAIN dependencies /\ d \in Range(dependencies[t][1]))

====
